---- MODULE Spec2Model ----
(***************************************************************************)
(* Model of the benchmark harness of async_await_flask                     *)
(* (src/benchmarks/test_all.py): the single-request probe, the concurrent  *)
(* load driver in its two strategies (ThreadPoolExecutor / asyncio.gather) *)
(* and the aggregation of the collected durations into a summary.          *)
(*                                                                         *)
(* Time is a discrete clock; one tick is the resolution of time.time().    *)
(* A network exchange (client construction, GET, answer or failure) never  *)
(* completes within the tick it was started in.                            *)
(* Numbers computed by a division are kept as fractions [num, den].        *)
(***************************************************************************)
EXTENDS Integers, Sequences, FiniteSets, Bags, TLC

\* ------------------------------------------------------------------ bounds
MaxRequests == 2
MaxTime == 2
\* the aggregation on its own: sample size, duration and error count
MaxSample == 4
MaxDuration == 3
MaxErrors == 2
\* the readiness gate: configured services and the timeout argument
MaxServices == 2
MaxTimeout == 2
\* the results store on its own: leaves it may hold
MaxLeaves == 3
\* requests one app process receives
MaxReceived == 2
\* units by which a sleep may return late
MaxLate == 1

\* httpx.AsyncClient(timeout=5.0) of wait_for_service, in seconds
HttpTimeout == 5
\* asyncio.sleep(1) of wait_for_service, in seconds
SleepInterval == 1
\* The waits of the demo apps, in units of 25 ms:
\* time.sleep(0.25) / asyncio.sleep(0.25) of /slow
SlowSleep == 10
\* time.sleep(0.125) / asyncio.sleep(0.125) of /multi-io, and its range(3)
MultiIoSleep == 5
MultiIoCalls == 3
\* time.sleep(0.075) / asyncio.sleep(0.075) of /db-simulation
DbSleep == 3
\* time.sleep(0.25) / asyncio.sleep(0.25) of /parallel (Flask apps)
ParallelSleep == 10
\* the delay 0.5 of the tasks of /parallel (Quart) and /parallel-attempt
ParallelTaskDelay == 20

\* HTTP status codes a service may answer with; 200 is the only success.
StatusCodes == {200, 404}
\* str(e) of the transport exceptions httpx raises.
ErrorMessages == {"ConnectError"}

VARIABLES
    strategy,       \* "sync" (test_concurrent_sync) or "async" (test_concurrent_async)
    num_requests,   \* the driver's request count N
    pc,             \* the driver's position
    clock,          \* time.time()
    start,          \* the driver's local start
    max_workers,    \* ThreadPoolExecutor._max_workers
    num_threads,    \* len(ThreadPoolExecutor._threads)
    pstate,         \* per probe: "new", "queued", "inflight", "settled"
    req_start,      \* per probe: its own start reading
    response,       \* per probe: what the network produced
    result,         \* per probe: the outcome record returned by the probe
    attempts,       \* per probe: HTTP GETs issued
    collected,      \* probe ids in the order the driver consumed their outcomes
    durations,      \* the driver's list of successful durations
    errors,         \* the driver's error tally
    summary,        \* the dict the driver returns
    waiter,         \* as_completed's waiter.finished_futures, in finishing order
    \* ---- the readiness gate (wait_for_all_services / wait_for_service)
    gate_pc,        \* "idle", "gather", "returned"
    gate_result,    \* what wait_for_all_services returned
    now,            \* time.time(), in seconds since the gate was called
    timeout,        \* the timeout argument of wait_for_service
    svc,            \* per service: "starting", "up", "down"
    wpc,            \* per service loop: "new", "check", "get", "sleep", "done"
    wstart,         \* per service loop: its local start
    wsince,         \* per service loop: when the current GET or sleep began
    wlast,          \* per service loop: when its previous GET ended (-1: none)
    wgot,           \* per service loop: a GET of it was answered 200
    results,        \* per service loop: the value it returned
    \* ---- main and the two suites
    main_pc,        \* main's position
    step,           \* index of the current test in the running suite's plan
    inflight,       \* probes of the current test not yet settled (-1: none)
    test_oks,       \* probes of the current test that succeeded
    test_errs,      \* probes of the current test that failed
    issued,         \* probes dispatched against endpoints under test so far
    sync_results,   \* BenchmarkResults.results of run_benchmark_suite
    async_results,  \* BenchmarkResults.results of async_benchmark_suite
    json_report,    \* what generate_report wrote
    md_report,      \* the table rows generate_markdown_report wrote
    \* ---- a BenchmarkResults object on its own
    self_results,   \* self.results, the nested dict
    self_before,    \* self.results as the last add_result call found it
    call,           \* the arguments of the last add_result call
    \* ---- one process of a demo app
    app,            \* the service this process runs ("none": not started)
    handlers,       \* per request: the thread or coroutine that handles it
    metrics,        \* the module's metrics dict
    track_calls,    \* track_request calls made so far
    received,       \* requests received so far
    app_response    \* the last response sent

driverVars == <<strategy, num_requests, pc, clock, start, max_workers,
                num_threads, pstate, req_start, response, result, attempts,
                collected, durations, errors, summary, waiter>>

gateVars == <<gate_pc, gate_result, now, timeout, svc, wpc, wstart, wsince,
              wlast, wgot, results>>

mainVars == <<main_pc, step, inflight, test_oks, test_errs, issued,
              sync_results, async_results, json_report, md_report>>

storeVars == <<self_results, self_before, call>>

appVars == <<app, handlers, metrics, track_calls, received, app_response>>
otherVars == <<storeVars, appVars>>

vars == <<driverVars, gateVars, mainVars, otherVars>>

notDriverVars == <<gateVars, mainVars, otherVars>>
notGateVars == <<driverVars, mainVars, otherVars>>
\* what main and the gate it calls leave alone
notMainVars == <<driverVars, otherVars>>
notStoreVars == <<driverVars, gateVars, mainVars, appVars>>
notAppVars == <<driverVars, gateVars, mainVars, storeVars>>

Probes == 1..num_requests

NoResponse == [kind |-> "none"]
NoResult == [pending |-> TRUE]
NoSummary == [pending |-> TRUE]

\* ------------------------------------------------------------- arithmetic
Frac(n, d) == [num |-> n, den |-> d]

\* sum(data), by halves
RECURSIVE SumSeq(_)
SumSeq(s) ==
    IF s = <<>> THEN 0
    ELSE IF Len(s) = 1 THEN s[1]
    ELSE LET h == Len(s) \div 2
         IN  SumSeq(SubSeq(s, 1, h)) + SumSeq(SubSeq(s, h + 1, Len(s)))

\* (mutation of MinSeq: the first element is taken)
MinSeqFirst(s) == s[1]

\* min(data)
MinSeq(s) ==
    CHOOSE x \in {s[i] : i \in 1..Len(s)} : \A k \in 1..Len(s) : x <= s[k]

\* max(data)
MaxSeq(s) ==
    CHOOSE x \in {s[i] : i \in 1..Len(s)} : \A k \in 1..Len(s) : x >= s[k]

\* (mutation of Sorted: the data is used in the order it was collected)
SortedUnsorted(s) == s

\* sorted(data)
Sorted(s) == SortSeq(s, LAMBDA a, b : a < b)

\* statistics.mean
Mean(data) == Frac(SumSeq(data), Len(data))

\* statistics.median
Median(data) ==
    LET s == Sorted(data)
        n == Len(data)
        i == n \div 2
    IN  IF n % 2 = 1 THEN Frac(s[i + 1], 1)
        ELSE Frac(s[i] + s[i + 1], 2)

\* (mutation of Quantile: the two interpolation weights are exchanged)
QuantileSwapped(data, n, k) ==
    LET s == SortSeq(data, LAMBDA a, b : a < b)
        ld == Len(data)
        m == ld + 1
        i == k + 1
        j0 == (i * m) \div n
        j == IF j0 < 1 THEN 1 ELSE IF j0 > ld - 1 THEN ld - 1 ELSE j0
        delta == i * m - j * n
    IN  Frac(s[j] * delta + s[j + 1] * (n - delta), n)

\* (mutation of Quantile: the nearest rank is taken, without interpolation)
QuantileNearestRank(data, n, k) ==
    LET s == SortSeq(data, LAMBDA a, b : a < b)
        ld == Len(data)
        r0 == ((k + 1) * ld + n - 1) \div n
        r == IF r0 < 1 THEN 1 ELSE IF r0 > ld THEN ld ELSE r0
    IN  Frac(s[r], 1)

\* statistics.quantiles(data, n=n)[k], method 'exclusive', for len(data) >= 2
Quantile(data, n, k) ==
    LET s == Sorted(data)
        ld == Len(data)
        m == ld + 1
        i == k + 1
        j0 == (i * m) \div n
        j == IF j0 < 1 THEN 1 ELSE IF j0 > ld - 1 THEN ld - 1 ELSE j0
        delta == i * m - j * n
    IN  Frac(s[j] * (n - delta) + s[j + 1] * delta, n)

\* ---------------------------------------------------------------- probes
\* (mutation of SingleRequestResult: every status below 500 counts as success)
SingleRequestResultLax(status_code, duration) ==
    [success |-> (status_code < 500),
     duration |-> duration,
     status_code |-> status_code]

\* test_single_request: the record returned when a response was received
SingleRequestResult(status_code, duration) ==
    [success |-> (status_code = 200),
     duration |-> duration,
     status_code |-> status_code]

\* test_single_request: the record returned from the except branch
SingleRequestError(message, duration) ==
    [success |-> FALSE, duration |-> duration, error |-> message]

\* test_concurrent_async.make_request: a response was received
MakeRequestResult(status_code, duration) ==
    [success |-> (status_code = 200), duration |-> duration]

\* test_concurrent_async.make_request: the except branch
MakeRequestError(message, duration) ==
    [success |-> FALSE, duration |-> duration, error |-> message]

\* ------------------------------------------------------------ aggregation
\* (mutation of EmptySummary: the throughput and latency fields are zeroed)
EmptySummaryZeroed(total_time, errs) ==
    [total_time |-> total_time, errors |-> errs, success_rate |-> Frac(0, 1),
     requests_per_second |-> Frac(0, 1), mean_latency |-> Frac(0, 1)]

\* the dict returned when no probe succeeded
EmptySummary(total_time, errs) ==
    [total_time |-> total_time, errors |-> errs, success_rate |-> Frac(0, 1)]

\* (mutation of SuccessRate: the failures are counted instead)
SuccessRateOfErrors(durs, errs) == Frac(errs, Len(durs) + errs)

\* len(durations) / (len(durations) + errors)
SuccessRate(durs, errs) == Frac(Len(durs), Len(durs) + errs)

\* (mutation of P95Latency: a single sample gives 0)
P95LatencyZero(durs) ==
    IF Len(durs) > 1 THEN Quantile(durs, 20, 18) ELSE Frac(0, 1)

\* statistics.quantiles(durations, n=20)[18] if len(durations) > 1 else durations[0]
P95Latency(durs) ==
    IF Len(durs) > 1 THEN Quantile(durs, 20, 18) ELSE Frac(durs[1], 1)

\* statistics.quantiles(durations, n=100)[98] if len(durations) > 1 else durations[0]
P99Latency(durs) ==
    IF Len(durs) > 1 THEN Quantile(durs, 100, 98) ELSE Frac(durs[1], 1)

\* the dict returned when at least one probe succeeded
FullSummary(durs, errs, total_time) ==
    [total_time |-> total_time,
     requests_per_second |-> Frac(Len(durs), total_time),
     mean_latency |-> Mean(durs),
     median_latency |-> Median(durs),
     p95_latency |-> P95Latency(durs),
     p99_latency |-> P99Latency(durs),
     min_latency |-> MinSeq(durs),
     max_latency |-> MaxSeq(durs),
     errors |-> errs,
     success_rate |-> SuccessRate(durs, errs)]

\* test_concurrent_sync: the return statements
SyncSummary(durs, errs, total_time) ==
    IF durs = <<>> THEN EmptySummary(total_time, errs)
    ELSE FullSummary(durs, errs, total_time)

\* test_concurrent_async: the return statements
AsyncSummary(durs, errs, total_time) ==
    IF durs = <<>> THEN EmptySummary(total_time, errs)
    ELSE FullSummary(durs, errs, total_time)

\* (mutation of TotalTime: the collected durations are summed)
TotalTimeSummed == SumSeq(durations)

\* total_time = time.time() - start
TotalTime == clock - start

\* ------------------------------------------------------------------ state
\* SERVICES: the names of the configured services, in dict order
ServiceNames ==
    <<"flask-wsgi", "flask-async-trap", "flask-asgi-wrapper", "quart-native">>

\* the services of the modelled configuration
Services == {ServiceNames[k] : k \in 1..MaxServices}

InitGate ==
    /\ gate_pc = "idle"
    /\ gate_result = FALSE
    /\ now = 0
    /\ timeout = 0
    /\ svc = [s \in Services |-> "starting"]
    /\ wpc = [s \in Services |-> "new"]
    /\ wstart = [s \in Services |-> 0]
    /\ wsince = [s \in Services |-> 0]
    /\ wlast = [s \in Services |-> -1]
    /\ wgot = [s \in Services |-> FALSE]
    /\ results = [s \in Services |-> FALSE]

InitDriver ==
    /\ strategy = "none"
    /\ num_requests = 0
    /\ pc = "idle"
    /\ clock = 0
    /\ start = 0
    /\ max_workers = 0
    /\ num_threads = 0
    /\ pstate = <<>>
    /\ req_start = <<>>
    /\ response = <<>>
    /\ result = <<>>
    /\ attempts = <<>>
    /\ collected = <<>>
    /\ durations = <<>>
    /\ errors = 0
    /\ summary = NoSummary
    /\ waiter = <<>>

\* BenchmarkResults.__init__: self.results = {}
EmptyStore == <<>>

\* a report file that was not written
NoReport == [written |-> FALSE]

InitMain ==
    /\ main_pc = "start"
    /\ step = 0
    /\ inflight = -1
    /\ test_oks = 0
    /\ test_errs = 0
    /\ issued = 0
    /\ sync_results = EmptyStore
    /\ async_results = EmptyStore
    /\ json_report = NoReport
    /\ md_report = NoReport

\* no add_result call was made yet
NoCall == [made |-> FALSE]

InitStore ==
    /\ self_results = EmptyStore
    /\ self_before = EmptyStore
    /\ call = NoCall

\* the requests of a process, in the order they are received; each is
\* handled on a thread or in a coroutine of its own
Threads == 1..MaxReceived

\* the handler of a request not yet received, or already answered
Idle ==
    [pc |-> "idle", path |-> "", tmp |-> 0, phase |-> 0, timers |-> <<>>,
     elapsed |-> 0]

\* no response was sent yet
NoAppResponse == [made |-> FALSE]

\* no process runs yet
InitApp ==
    /\ app = "none"
    /\ handlers = [t \in Threads |-> Idle]
    /\ metrics = [requests_total |-> 0, requests_by_endpoint |-> <<>>]
    /\ track_calls = 0
    /\ received = 0
    /\ app_response = NoAppResponse

InitOther == InitStore /\ InitApp

Init == InitDriver /\ InitGate /\ InitMain /\ InitOther

InState(st) == {i \in Probes : pstate[i] = st}

Min(S) == CHOOSE x \in S : \A y \in S : x <= y

\* time.time() advances while a test runs
Tick ==
    /\ pc \notin {"idle", "done"}
    /\ clock < MaxTime
    /\ clock' = clock + 1
    /\ UNCHANGED <<strategy, num_requests, pc, start, max_workers, num_threads,
                   pstate, req_start, response, result, attempts, collected,
                   durations, errors, summary,
                   waiter>>

\* the locals a driver sets up before it launches anything
DriverEntry(strat, n) ==
    /\ pc = "idle"
    /\ strategy' = strat
    /\ num_requests' = n
    /\ start' = clock
    /\ durations' = <<>>
    /\ errors' = 0
    /\ pstate' = [i \in 1..n |-> "new"]
    /\ req_start' = [i \in 1..n |-> 0]
    /\ response' = [i \in 1..n |-> NoResponse]
    /\ result' = [i \in 1..n |-> NoResult]
    /\ attempts' = [i \in 1..n |-> 0]
    /\ collected' = <<>>
    /\ waiter' = <<>>
    /\ UNCHANGED <<clock, summary>>

\* ------------------------------------------------- thread-pool strategy
\* (mutation of SyncMaxWorkers: a pool of one worker)
SyncMaxWorkersOne(n) == 1

\* ThreadPoolExecutor(max_workers=num_requests)
SyncMaxWorkers(n) == n

\* test_concurrent_sync(..., num_requests): start, durations, errors and the
\* executor

StartSync(n) ==
    /\ DriverEntry("sync", n)
    /\ pc' = "submit"
    /\ max_workers' = SyncMaxWorkers(n)
    /\ num_threads' = 0

\* threads of the pool that hold no work item and have none waiting for them
IdleThreads == num_threads - Cardinality(InState("inflight"))
                           - Cardinality(InState("queued"))

\* executor.submit(test_single_request, ...): the work item is queued and
\* _adjust_thread_count starts a thread unless one is idle or the pool is full
Submit ==
    /\ pc = "submit"
    /\ InState("new") # {}
    /\ LET i == Min(InState("new")) IN
        /\ pstate' = [pstate EXCEPT ![i] = "queued"]
        /\ num_threads' = IF IdleThreads > 0 THEN num_threads
                          ELSE IF num_threads < max_workers THEN num_threads + 1
                          ELSE num_threads
        /\ pc' = IF i = num_requests THEN "futures" ELSE "submit"
    /\ UNCHANGED <<strategy, num_requests, clock, start, max_workers, req_start,
                   response, result, attempts, collected, durations, errors,
                   summary,
                   waiter>>

\* a pool thread is free to take the oldest queued work item
WorkerFree == Cardinality(InState("inflight")) < num_threads

\* _worker: takes the oldest work item and runs test_single_request up to
\* client.get(full_url)
WorkerRun ==
    /\ strategy = "sync"
    /\ InState("queued") # {}
    /\ WorkerFree
    /\ clock < MaxTime
    /\ LET i == Min(InState("queued")) IN
        /\ pstate' = [pstate EXCEPT ![i] = "inflight"]
        /\ req_start' = [req_start EXCEPT ![i] = clock]
        /\ attempts' = [attempts EXCEPT ![i] = @ + 1]
    /\ UNCHANGED <<strategy, num_requests, pc, clock, start, max_workers,
                   num_threads, response, result, collected, durations, errors,
                   summary,
                   waiter>>

\* ------------------------------------------------------ network outcomes
\* Future.set_result: a future that finishes while as_completed waits is
\* appended to the waiter's finished_futures
Notify(i) ==
    IF strategy = "sync" /\ pc = "as_completed" THEN Append(waiter, i)
    ELSE waiter

\* the GET of probe i is answered with a status code; the probe reads the
\* time and returns its record
Respond(i, status_code) ==
    /\ pstate[i] = "inflight"
    /\ clock > req_start[i]
    /\ response' = [response EXCEPT
                      ![i] = [kind |-> "response", status_code |-> status_code]]
    /\ result' = [result EXCEPT ![i] =
                    IF strategy = "sync"
                    THEN SingleRequestResult(status_code, clock - req_start[i])
                    ELSE MakeRequestResult(status_code, clock - req_start[i])]
    /\ pstate' = [pstate EXCEPT ![i] = "settled"]
    /\ waiter' = Notify(i)
    /\ UNCHANGED <<strategy, num_requests, pc, clock, start, max_workers,
                   num_threads, req_start, attempts, collected, durations, errors,
                   summary>>

\* (mutation of Fail: the probe issues its GET a second time after a failure)
FailRetry(i, message) ==
    /\ pstate[i] = "inflight"
    /\ clock > req_start[i]
    /\ IF attempts[i] < 2
       THEN /\ attempts' = [attempts EXCEPT ![i] = @ + 1]
            /\ UNCHANGED <<response, result, pstate, waiter>>
       ELSE /\ response' = [response EXCEPT
                              ![i] = [kind |-> "exception", message |-> message]]
            /\ result' = [result EXCEPT ![i] =
                            [success |-> FALSE, duration |-> clock - req_start[i],
                             error |-> message]]
            /\ pstate' = [pstate EXCEPT ![i] = "settled"]
            /\ waiter' = Notify(i)
            /\ UNCHANGED attempts
    /\ UNCHANGED <<strategy, num_requests, pc, clock, start, max_workers,
                   num_threads, req_start, collected, durations, errors, summary>>

\* the GET of probe i raises (connection refused, timeout, DNS failure); the
\* except branch turns it into a record
Fail(i, message) ==
    /\ pstate[i] = "inflight"
    /\ clock > req_start[i]
    /\ response' = [response EXCEPT
                      ![i] = [kind |-> "exception", message |-> message]]
    /\ result' = [result EXCEPT ![i] =
                    IF strategy = "sync"
                    THEN SingleRequestError(message, clock - req_start[i])
                    ELSE MakeRequestError(message, clock - req_start[i])]
    /\ pstate' = [pstate EXCEPT ![i] = "settled"]
    /\ waiter' = Notify(i)
    /\ UNCHANGED <<strategy, num_requests, pc, clock, start, max_workers,
                   num_threads, req_start, attempts, collected, durations, errors,
                   summary>>

\* ------------------------------------------------ thread-pool strategy, 2
Collected == {collected[k] : k \in 1..Len(collected)}

\* (mutation of SyncDurations: the duration is kept whatever the outcome)
SyncDurationsAll(r) == Append(durations, r.duration)

\* (mutation of SyncErrors: only transport errors are counted)
SyncErrorsTransportOnly(r) ==
    IF r.success THEN errors
    ELSE IF "error" \in DOMAIN r THEN errors + 1 ELSE errors

\* the body of "for future in as_completed(futures)"
SyncDurations(r) == IF r.success THEN Append(durations, r.duration) ELSE durations
SyncErrors(r) == IF r.success THEN errors ELSE errors + 1

\* as_completed(futures) is called: the futures already finished form its
\* first batch and a waiter is installed on the others
AsCompletedCall ==
    /\ pc = "futures"
    /\ pc' = "as_completed"
    /\ waiter' = <<>>
    /\ UNCHANGED <<strategy, num_requests, clock, start, max_workers, num_threads,
                   pstate, req_start, response, result, attempts, collected,
                   durations, errors, summary>>

Waiting == {waiter[k] : k \in 1..Len(waiter)}

\* the futures that had finished when as_completed was called and are not
\* yielded yet (a set: it is iterated in no particular order)
FirstBatch == InState("settled") \ (Collected \cup Waiting)

\* the future as_completed yields next: any of the first batch, then the
\* waiter's finished futures in finishing order
NextYield(i) ==
    IF FirstBatch # {} THEN i \in FirstBatch
    ELSE waiter # <<>> /\ i = Head(waiter)

\* one iteration of "for future in as_completed(futures)"
AsCompleted(i) ==
    /\ pc = "as_completed"
    /\ pstate[i] = "settled"
    /\ i \notin Collected
    /\ NextYield(i)
    /\ waiter' = IF i \in Waiting THEN Tail(waiter) ELSE waiter
    /\ collected' = Append(collected, i)
    /\ durations' = SyncDurations(result[i])
    /\ errors' = SyncErrors(result[i])
    /\ UNCHANGED <<strategy, num_requests, pc, clock, start, max_workers,
                   num_threads, pstate, req_start, response, result, attempts,
                   summary>>

\* (mutation of SyncLoopDone: the loop ends with the first finished future)
SyncLoopDoneFirst == Collected # {}

\* as_completed is exhausted: every future has been yielded
SyncLoopDone == Collected = Probes

\* the with block is left: shutdown(wait=True) joins the pool's threads
ExecutorShutdown == InState("inflight") = {} /\ InState("queued") = {}

\* the loop and the with block are left, total_time is taken and the summary
\* returned
ReturnSync ==
    /\ pc = "as_completed"
    /\ SyncLoopDone
    /\ ExecutorShutdown
    /\ summary' = SyncSummary(durations, errors, TotalTime)
    /\ pc' = "done"
    /\ UNCHANGED <<strategy, num_requests, clock, start, max_workers, num_threads,
                   pstate, req_start, response, result, attempts, collected,
                   durations, errors,
                   waiter>>

\* ------------------------------------------------ cooperative strategy
\* test_concurrent_async(..., num_requests): start, durations, errors, the
\* list of make_request() coroutines and the call of asyncio.gather
StartAsync(n) ==
    /\ DriverEntry("async", n)
    /\ pc' = "gather"
    /\ UNCHANGED <<max_workers, num_threads>>

\* the event loop runs the next task of gather, in task order, up to its
\* await client.get(...)
TaskRun ==
    /\ strategy = "async"
    /\ pc = "gather"
    /\ InState("new") # {}
    /\ clock < MaxTime
    /\ LET i == Min(InState("new")) IN
        /\ pstate' = [pstate EXCEPT ![i] = "inflight"]
        /\ req_start' = [req_start EXCEPT ![i] = clock]
        /\ attempts' = [attempts EXCEPT ![i] = @ + 1]
    /\ UNCHANGED <<strategy, num_requests, pc, clock, start, max_workers,
                   num_threads, response, result, collected, durations, errors,
                   summary,
                   waiter>>

\* asyncio.gather completes: every task has returned its record
GatherDone == \A i \in Probes : pstate[i] = "settled"

Gather ==
    /\ pc = "gather"
    /\ GatherDone
    /\ pc' = "for_results"
    /\ UNCHANGED <<strategy, num_requests, clock, start, max_workers, num_threads,
                   pstate, req_start, response, result, attempts, collected,
                   durations, errors, summary,
                   waiter>>

\* the body of "for result in results"
AsyncDurations(r) == IF r.success THEN Append(durations, r.duration) ELSE durations
AsyncErrors(r) == IF r.success THEN errors ELSE errors + 1

\* the instant probe i returned its record
FinishedAt(i) == req_start[i] + result[i].duration

\* (mutation of GatherResults: the results come in finishing order)
GatherResultsAsFinished ==
    LET Before(i, j) == \/ FinishedAt(i) < FinishedAt(j)
                        \/ FinishedAt(i) = FinishedAt(j) /\ i < j
    IN  [k \in Probes |->
            CHOOSE i \in Probes :
                Cardinality({j \in Probes : Before(j, i)}) = k - 1]

\* results = await asyncio.gather(*tasks): position k holds the record of
\* the k-th task, whatever order the tasks finished in
GatherResults == [k \in Probes |-> k]

\* one iteration of "for result in results"
ForResults ==
    /\ pc = "for_results"
    /\ Len(collected) < num_requests
    /\ LET i == GatherResults[Len(collected) + 1] IN
        /\ collected' = Append(collected, i)
        /\ durations' = AsyncDurations(result[i])
        /\ errors' = AsyncErrors(result[i])
    /\ UNCHANGED <<strategy, num_requests, pc, clock, start, max_workers,
                   num_threads, pstate, req_start, response, result, attempts,
                   summary,
                   waiter>>

\* the for loop is exhausted, total_time is taken and the summary returned
ReturnAsync ==
    /\ pc = "for_results"
    /\ Len(collected) = num_requests
    /\ summary' = AsyncSummary(durations, errors, TotalTime)
    /\ pc' = "done"
    /\ UNCHANGED <<strategy, num_requests, clock, start, max_workers, num_threads,
                   pstate, req_start, response, result, attempts, collected,
                   durations, errors,
                   waiter>>

\* ------------------------------------------------------------------ spec
\* a step of one load test leaves the gate alone
Next ==
    \/ (\E n \in 1..MaxRequests : StartSync(n)) /\ UNCHANGED notDriverVars
    \/ (\E n \in 1..MaxRequests : StartAsync(n)) /\ UNCHANGED notDriverVars
    \/ Tick /\ UNCHANGED notDriverVars
    \/ Submit /\ UNCHANGED notDriverVars
    \/ WorkerRun /\ UNCHANGED notDriverVars
    \/ TaskRun /\ UNCHANGED notDriverVars
    \/ (\E i \in Probes, c \in StatusCodes : Respond(i, c)) /\ UNCHANGED notDriverVars
    \/ (\E i \in Probes, m \in ErrorMessages : Fail(i, m)) /\ UNCHANGED notDriverVars
    \/ AsCompletedCall /\ UNCHANGED notDriverVars
    \/ (\E i \in Probes : AsCompleted(i)) /\ UNCHANGED notDriverVars
    \/ ReturnSync /\ UNCHANGED notDriverVars
    \/ Gather /\ UNCHANGED notDriverVars
    \/ ForResults /\ UNCHANGED notDriverVars
    \/ ReturnAsync /\ UNCHANGED notDriverVars

Spec == Init /\ [][Next]_vars

\* ------------------------------------------------- the aggregation alone
\* The return statements of the two drivers applied to every sample of up to
\* MaxSample successful durations, every error count and every total_time.
AggDuration(d) ==
    /\ pc = "idle"
    /\ Len(durations) < MaxSample
    /\ durations' = Append(durations, d)
    /\ UNCHANGED <<strategy, num_requests, pc, clock, start, max_workers,
                   num_threads, pstate, req_start, response, result, attempts,
                   collected, errors, summary, waiter>>

AggError ==
    /\ pc = "idle"
    /\ errors < MaxErrors
    /\ errors' = errors + 1
    /\ UNCHANGED <<strategy, num_requests, pc, clock, start, max_workers,
                   num_threads, pstate, req_start, response, result, attempts,
                   collected, durations, summary, waiter>>

AggReturnSync(t) ==
    /\ pc = "idle"
    /\ Len(durations) + errors >= 1
    /\ strategy' = "sync"
    /\ num_requests' = Len(durations) + errors
    /\ summary' = SyncSummary(durations, errors, t)
    /\ pc' = "done"
    /\ UNCHANGED <<clock, start, max_workers, num_threads, pstate, req_start,
                   response, result, attempts, collected, durations, errors,
                   waiter>>

AggReturnAsync(t) ==
    /\ pc = "idle"
    /\ Len(durations) + errors >= 1
    /\ strategy' = "async"
    /\ num_requests' = Len(durations) + errors
    /\ summary' = AsyncSummary(durations, errors, t)
    /\ pc' = "done"
    /\ UNCHANGED <<clock, start, max_workers, num_threads, pstate, req_start,
                   response, result, attempts, collected, durations, errors,
                   waiter>>

NextAgg ==
    \/ (\E d \in 1..MaxDuration : AggDuration(d)) /\ UNCHANGED notDriverVars
    \/ AggError /\ UNCHANGED notDriverVars
    \/ (\E t \in 1..MaxTime : AggReturnSync(t)) /\ UNCHANGED notDriverVars
    \/ (\E t \in 1..MaxTime : AggReturnAsync(t)) /\ UNCHANGED notDriverVars

SpecAgg == Init /\ [][NextAgg]_vars

\* ------------------------------------------------------- readiness gate
\* Time is counted in seconds here. A GET of /health ends with an answer or
\* an exception at any moment up to the client's timeout; a service answers
\* 200 on /health exactly while it is up. The locals of a loop are dropped
\* when it returns.

\* wait_for_all_services: one wait_for_service coroutine per service, handed
\* to asyncio.gather; each runs up to its first await without yielding
GateStart(t) ==
    /\ gate_pc = "idle"
    /\ gate_pc' = "gather"
    /\ timeout' = t
    /\ wpc' = [s \in Services |-> "check"]
    /\ wstart' = [s \in Services |-> now]
    /\ UNCHANGED <<gate_result, now, svc, wsince, wlast, wgot, results>>

\* while time.time() - start < timeout: the next GET is sent; otherwise the
\* loop is left and False returned
LoopCheck(s) ==
    /\ gate_pc = "gather"
    /\ wpc[s] = "check"
    /\ IF now - wstart[s] < timeout
       THEN /\ wpc' = [wpc EXCEPT ![s] = "get"]
            /\ wsince' = [wsince EXCEPT ![s] = now]
            /\ UNCHANGED <<results, wlast>>
       ELSE /\ wpc' = [wpc EXCEPT ![s] = "done"]
            /\ results' = [results EXCEPT ![s] = FALSE]
            /\ wsince' = [wsince EXCEPT ![s] = 0]
            /\ wlast' = [wlast EXCEPT ![s] = -1]
    /\ UNCHANGED <<gate_pc, gate_result, now, timeout, svc, wstart, wgot>>

\* the GET is answered 200: return True
PollOk(s) ==
    /\ wpc[s] = "get"
    /\ svc[s] = "up"
    /\ wgot' = [wgot EXCEPT ![s] = TRUE]
    /\ wpc' = [wpc EXCEPT ![s] = "done"]
    /\ results' = [results EXCEPT ![s] = TRUE]
    /\ wsince' = [wsince EXCEPT ![s] = 0]
    /\ wlast' = [wlast EXCEPT ![s] = -1]
    /\ UNCHANGED <<gate_pc, gate_result, now, timeout, svc, wstart>>

\* (mutation of PollOther: any answer counts as ready)
PollOtherReady(s, status_code) ==
    /\ wpc[s] = "get"
    /\ svc[s] = "starting"
    /\ status_code # 200
    /\ wpc' = [wpc EXCEPT ![s] = "done"]
    /\ results' = [results EXCEPT ![s] = TRUE]
    /\ wsince' = [wsince EXCEPT ![s] = 0]
    /\ wlast' = [wlast EXCEPT ![s] = -1]
    /\ UNCHANGED <<gate_pc, gate_result, now, timeout, svc, wstart, wgot>>

\* the GET is answered with another status: the if is not taken, nothing is
\* raised, and the while condition is evaluated again
PollOther(s, status_code) ==
    /\ wpc[s] = "get"
    /\ svc[s] = "starting"
    /\ status_code # 200
    /\ wlast' = [wlast EXCEPT ![s] = now]
    /\ wpc' = [wpc EXCEPT ![s] = "check"]
    /\ UNCHANGED <<gate_pc, gate_result, now, timeout, svc, wstart, wsince,
                   wgot, results>>

\* the GET raises (refused, or no answer within the client's timeout):
\* except Exception: await asyncio.sleep(1)
PollRaise(s) ==
    /\ wpc[s] = "get"
    /\ svc[s] # "up"
    /\ wlast' = [wlast EXCEPT ![s] = now]
    /\ wpc' = [wpc EXCEPT ![s] = "sleep"]
    /\ wsince' = [wsince EXCEPT ![s] = now]
    /\ UNCHANGED <<gate_pc, gate_result, now, timeout, svc, wstart, wgot,
                   results>>

\* asyncio.sleep(1) is over
Wake(s) ==
    /\ wpc[s] = "sleep"
    /\ now >= wsince[s] + SleepInterval
    /\ wpc' = [wpc EXCEPT ![s] = "check"]
    /\ UNCHANGED <<gate_pc, gate_result, now, timeout, svc, wstart, wsince,
                   wlast, wgot, results>>

\* a second passes: no loop is at its while condition, no GET is past the
\* client's timeout and no sleep is overdue
GateTick ==
    /\ gate_pc = "gather"
    /\ \E s \in Services : wpc[s] # "done"
    /\ \A s \in Services :
        /\ wpc[s] # "check"
        /\ wpc[s] = "get" => now < wsince[s] + HttpTimeout
        /\ wpc[s] = "sleep" => now < wsince[s] + SleepInterval
    /\ now' = now + 1
    /\ UNCHANGED <<gate_pc, gate_result, timeout, svc, wpc, wstart, wsince,
                   wlast, wgot, results>>

\* a service finishes starting
ServiceUp(s) ==
    /\ gate_pc \in {"idle", "gather"}
    /\ svc[s] = "starting"
    /\ svc' = [svc EXCEPT ![s] = "up"]
    /\ UNCHANGED <<gate_pc, gate_result, now, timeout, wpc, wstart, wsince,
                   wlast, wgot, results>>

\* a service stops after its loop has reported it ready
ServiceDown(s) ==
    /\ wpc[s] = "done"
    /\ svc[s] = "up"
    /\ svc' = [svc EXCEPT ![s] = "down"]
    /\ UNCHANGED <<gate_pc, gate_result, now, timeout, wpc, wstart, wsince,
                   wlast, wgot, results>>

\* (mutation of GatherDoneAll: gather returns with the first loop that failed)
GatherDoneFirstFailure ==
    \/ \A s \in Services : wpc[s] = "done"
    \/ \E s \in Services : wpc[s] = "done" /\ ~results[s]

\* results = await asyncio.gather(*tasks): every loop has returned
GatherDoneAll == \A s \in Services : wpc[s] = "done"

\* (mutation of AllResults: one ready service is enough)
AnyResults == \E s \in Services : results[s]

\* all(results)
AllResults == \A s \in Services : results[s]

\* if all(results): return True, else: return False; the clock of the gate
\* is not read again
GateReturn ==
    /\ gate_pc = "gather"
    /\ GatherDoneAll
    /\ gate_result' = AllResults
    /\ gate_pc' = "returned"
    /\ timeout' = 0
    /\ now' = 0
    /\ wstart' = [s \in Services |-> 0]
    /\ UNCHANGED <<svc, wpc, wsince, wlast, wgot, results>>

NextGate ==
    \/ (\E t \in 1..MaxTimeout : GateStart(t)) /\ UNCHANGED notGateVars
    \/ (\E s \in Services : LoopCheck(s)) /\ UNCHANGED notGateVars
    \/ (\E s \in Services : PollOk(s)) /\ UNCHANGED notGateVars
    \/ (\E s \in Services, c \in StatusCodes : PollOther(s, c))
            /\ UNCHANGED notGateVars
    \/ (\E s \in Services : PollRaise(s)) /\ UNCHANGED notGateVars
    \/ (\E s \in Services : Wake(s)) /\ UNCHANGED notGateVars
    \/ GateTick /\ UNCHANGED notGateVars
    \/ (\E s \in Services : ServiceUp(s)) /\ UNCHANGED notGateVars
    \/ (\E s \in Services : ServiceDown(s)) /\ UNCHANGED notGateVars
    \/ GateReturn /\ UNCHANGED notGateVars

SpecGate == Init /\ [][NextGate]_vars

\* ------------------------------------------------------ main and suites
\* Every probe of a test lasts one time unit here: what the suites store
\* depends on the outcomes of the probes, which follow the state of the
\* service under test when they settle. The tests keep their names; their
\* request counts are capped at MaxRequests.

ENDPOINTS ==
    <<"/parallel", "/multi-io", "/cpu-intensive", "/db-simulation", "/slow">>

\* a request count of the suites, capped at the bound on N
Capped(n) == IF n > MaxRequests THEN MaxRequests ELSE n

Test(service, endpoint, test_name, n) ==
    [service |-> service, endpoint |-> endpoint, test_name |-> test_name,
     num_requests |-> Capped(n)]

\* for service_name in SERVICES: for endpoint in ENDPOINTS: single request
SingleRequestTests ==
    [i \in 1..(MaxServices * Len(ENDPOINTS)) |->
        Test(ServiceNames[((i - 1) \div Len(ENDPOINTS)) + 1],
             ENDPOINTS[((i - 1) % Len(ENDPOINTS)) + 1], "single_request", 1)]

\* for service_name in SERVICES: for endpoint in ENDPOINTS[:2]: 10 requests
Concurrent10Tests ==
    [i \in 1..(MaxServices * 2) |->
        Test(ServiceNames[((i - 1) \div 2) + 1], ENDPOINTS[((i - 1) % 2) + 1],
             "concurrent_10", 10)]

\* for service_name in SERVICES: 50 requests on /parallel
Concurrent50Tests ==
    [k \in 1..MaxServices |->
        Test(ServiceNames[k], "/parallel", "concurrent_50", 50)]

\* for service_name in SERVICES: 100 requests on /parallel
Concurrent100Tests ==
    [k \in 1..MaxServices |->
        Test(ServiceNames[k], "/parallel", "concurrent_100", 100)]

\* run_benchmark_suite: its tests in the order they are run
SyncPlan ==
    SingleRequestTests \o Concurrent10Tests \o Concurrent50Tests
        \o Concurrent100Tests

\* async_benchmark_suite: its tests in the order they are run
AsyncPlan ==
    [k \in 1..MaxServices |->
        Test(ServiceNames[k], "/parallel", "async_concurrent_100", 100)]

CurrentPlan == IF main_pc = "async_suite" THEN AsyncPlan ELSE SyncPlan

Running == main_pc \in {"suite", "async_suite"}

\* BenchmarkResults.add_result on the nested dict, keyed here by the triple
AddResult(store, service, endpoint, test_name, data) ==
    [key \in DOMAIN store \cup {<<service, endpoint, test_name>>} |->
        IF key = <<service, endpoint, test_name>> THEN data ELSE store[key]]

\* (mutation of MergedResults: the async store takes the place of the sync
\* store)
MergedResultsAsyncOnly(into, from) == from

\* main: every leaf of the async store is added to the sync store
MergedResults(into, from) ==
    [key \in DOMAIN into \cup DOMAIN from |->
        IF key \in DOMAIN from THEN from[key] ELSE into[key]]

\* k successful probes of one time unit each
UnitDurations(k) == [i \in 1..k |-> 1]

\* (mutation of TestResult: the single request is summarised like a
\* concurrent test)
TestResultSummarised(t) ==
    IF t.test_name = "async_concurrent_100"
    THEN AsyncSummary(UnitDurations(test_oks), test_errs, 1)
    ELSE SyncSummary(UnitDurations(test_oks), test_errs, 1)

\* what the test that just ran returns
TestResult(t) ==
    IF t.test_name = "single_request"
    THEN IF test_oks = 1 THEN SingleRequestResult(200, 1)
         ELSE SingleRequestError("ConnectError", 1)
    ELSE IF t.test_name = "async_concurrent_100"
    THEN AsyncSummary(UnitDurations(test_oks), test_errs, 1)
    ELSE SyncSummary(UnitDurations(test_oks), test_errs, 1)

\* main: await wait_for_all_services(), called without a timeout argument
MainCallGate ==
    /\ main_pc = "start"
    /\ main_pc' = "gate"
    /\ GateStart(MaxTimeout)
    /\ UNCHANGED <<step, inflight, test_oks, test_errs, issued, sync_results,
                   async_results, json_report, md_report>>

\* (mutation of NotReady: the result of the gate is ignored)
NotReadyNever == FALSE

\* if not await wait_for_all_services()
NotReady == ~gate_result

\* print("ERROR: Not all services started. Exiting."); return
MainAbort ==
    /\ main_pc = "gate"
    /\ gate_pc = "returned"
    /\ NotReady
    /\ main_pc' = "aborted"
    /\ UNCHANGED <<step, inflight, test_oks, test_errs, issued, sync_results,
                   async_results, json_report, md_report>>
    /\ UNCHANGED gateVars

\* sync_results = run_benchmark_suite() is entered
MainRunSuite ==
    /\ main_pc = "gate"
    /\ gate_pc = "returned"
    /\ ~NotReady
    /\ main_pc' = "suite"
    /\ step' = 1
    /\ UNCHANGED <<inflight, test_oks, test_errs, issued, sync_results,
                   async_results, json_report, md_report>>
    /\ UNCHANGED gateVars

\* the next test of the suite dispatches its probes
TestStart ==
    /\ Running
    /\ inflight = -1
    /\ step <= Len(CurrentPlan)
    /\ inflight' = CurrentPlan[step].num_requests
    /\ issued' = issued + CurrentPlan[step].num_requests
    /\ test_oks' = 0
    /\ test_errs' = 0
    /\ UNCHANGED <<main_pc, step, sync_results, async_results, json_report,
                   md_report>>
    /\ UNCHANGED gateVars

\* k probes of the running test settle: successes while the service is up,
\* failures otherwise
Settle(k) ==
    /\ Running
    /\ inflight > 0
    /\ k \in {inflight} \cup
            {h \in {inflight \div 2} :
                h > 0 /\ inflight = CurrentPlan[step].num_requests}
    /\ inflight' = inflight - k
    /\ IF svc[CurrentPlan[step].service] = "up"
       THEN test_oks' = test_oks + k /\ UNCHANGED test_errs
       ELSE test_errs' = test_errs + k /\ UNCHANGED test_oks
    /\ UNCHANGED <<main_pc, step, issued, sync_results, async_results,
                   json_report, md_report>>
    /\ UNCHANGED gateVars

\* (mutation of AllSettled: the failure of a probe is not swallowed, and a
\* test with a failed probe does not return)
AllSettledAndSucceeded == inflight = 0 /\ test_errs = 0

\* (mutation of AllSettled: the test returns with its first outcome)
FirstSettled == inflight >= 0 /\ test_oks + test_errs > 0

\* the as_completed loop, or gather, has delivered every outcome
AllSettled == inflight = 0

\* the test returns and its result is added to the store of the suite
TestReturn ==
    /\ Running
    /\ AllSettled
    /\ LET t == CurrentPlan[step]
           data == TestResult(t)
       IN  IF main_pc = "suite"
           THEN /\ sync_results' = AddResult(sync_results, t.service,
                                             t.endpoint, t.test_name, data)
                /\ UNCHANGED async_results
           ELSE /\ async_results' = AddResult(async_results, t.service,
                                              t.endpoint, t.test_name, data)
                /\ UNCHANGED sync_results
    /\ step' = step + 1
    /\ inflight' = -1
    /\ test_oks' = 0
    /\ test_errs' = 0
    /\ UNCHANGED <<main_pc, issued, json_report, md_report>>
    /\ UNCHANGED gateVars

\* run_benchmark_suite returns; async_benchmark_suite is entered
RunBenchmarkSuiteReturn ==
    /\ main_pc = "suite"
    /\ inflight = -1
    /\ step > Len(SyncPlan)
    /\ main_pc' = "async_suite"
    /\ step' = 1
    /\ UNCHANGED <<inflight, test_oks, test_errs, issued, sync_results,
                   async_results, json_report, md_report>>
    /\ UNCHANGED gateVars

\* async_benchmark_suite returns
AsyncBenchmarkSuiteReturn ==
    /\ main_pc = "async_suite"
    /\ inflight = -1
    /\ step > Len(AsyncPlan)
    /\ main_pc' = "merge"
    /\ step' = 0
    /\ UNCHANGED <<inflight, test_oks, test_errs, issued, sync_results,
                   async_results, json_report, md_report>>
    /\ UNCHANGED gateVars

\* main: the async results are added to sync_results
MergeResults ==
    /\ main_pc = "merge"
    /\ sync_results' = MergedResults(sync_results, async_results)
    /\ main_pc' = "report"
    /\ UNCHANGED <<step, inflight, test_oks, test_errs, issued, async_results,
                   json_report, md_report>>
    /\ UNCHANGED gateVars

\* generate_report(sync_results)
GenerateReport ==
    /\ main_pc = "report"
    /\ json_report' = [written |-> TRUE, results |-> sync_results]
    /\ main_pc' = "markdown"
    /\ UNCHANGED <<step, inflight, test_oks, test_errs, issued, sync_results,
                   async_results, md_report>>
    /\ UNCHANGED gateVars

\* generate_markdown_report(sync_results): one row per service that has a
\* concurrent_100 result on /parallel
GenerateMarkdownReport ==
    /\ main_pc = "markdown"
    /\ md_report' =
        [written |-> TRUE,
         rows |-> {s \in Services :
                    <<s, "/parallel", "concurrent_100">> \in DOMAIN sync_results}]
    /\ main_pc' = "complete"
    /\ UNCHANGED <<step, inflight, test_oks, test_errs, issued, sync_results,
                   async_results, json_report>>
    /\ UNCHANGED gateVars

\* what main does once the gate has returned True
AfterGate ==
    \/ MainRunSuite /\ UNCHANGED notMainVars
    \/ TestStart /\ UNCHANGED notMainVars
    \/ (\E k \in 1..inflight : Settle(k)) /\ UNCHANGED notMainVars
    \/ TestReturn /\ UNCHANGED notMainVars
    \/ RunBenchmarkSuiteReturn /\ UNCHANGED notMainVars
    \/ AsyncBenchmarkSuiteReturn /\ UNCHANGED notMainVars
    \/ MergeResults /\ UNCHANGED notMainVars
    \/ GenerateReport /\ UNCHANGED notMainVars
    \/ GenerateMarkdownReport /\ UNCHANGED notMainVars

NextMain ==
    \/ MainCallGate /\ UNCHANGED notMainVars
    \/ (\E s \in Services : LoopCheck(s)) /\ UNCHANGED notGateVars
    \/ (\E s \in Services : PollOk(s)) /\ UNCHANGED notGateVars
    \/ (\E s \in Services, c \in StatusCodes : PollOther(s, c))
            /\ UNCHANGED notGateVars
    \/ (\E s \in Services : PollRaise(s)) /\ UNCHANGED notGateVars
    \/ (\E s \in Services : Wake(s)) /\ UNCHANGED notGateVars
    \/ GateTick /\ UNCHANGED notGateVars
    \/ (\E s \in Services : ServiceUp(s)) /\ UNCHANGED notGateVars
    \/ (\E s \in Services : ServiceDown(s)) /\ UNCHANGED notGateVars
    \/ GateReturn /\ UNCHANGED notGateVars
    \/ MainAbort /\ UNCHANGED notMainVars
    \/ AfterGate

SpecMain == Init /\ [][NextMain]_vars

\* the suites are sequential code and every probe ends within the timeout
\* of its client, so main keeps advancing once it is past the gate
FairSpecMain == SpecMain /\ WF_vars(AfterGate)

\* ------------------------------------------------ the results store alone
\* A BenchmarkResults object that receives add_result calls in any order,
\* repeated ones included. self.results is kept here as the nested dict of
\* the source: service -> endpoint -> test name -> data.

\* the calls are drawn from the first endpoints, two test names and two data
StoreEndpoints == {ENDPOINTS[1], ENDPOINTS[2]}
StoreTestNames == {"single_request", "concurrent_10"}
StoreData == {SingleRequestResult(200, 1), EmptySummary(1, 1)}

\* the leaves of a nested dict, keyed by the triple that leads to them
Leaves(nested) ==
    LET keys ==
            UNION {UNION {{<<s, e, t>> : t \in DOMAIN nested[s][e]} :
                            e \in DOMAIN nested[s]} :
                    s \in DOMAIN nested}
    IN  [key \in keys |-> nested[key[1]][key[2]][key[3]]]

\* (mutation of add_result: the dict of the endpoint is replaced by one that
\* holds the new entry only)
add_result_replacing(nested, service, endpoint, test_name, data) ==
    LET r1 == IF service \notin DOMAIN nested
              THEN nested @@ (service :> <<>>)
              ELSE nested
    IN  [r1 EXCEPT ![service] = (endpoint :> (test_name :> data)) @@ @]

\* BenchmarkResults.add_result, statement by statement
add_result(nested, service, endpoint, test_name, data) ==
    LET r1 == IF service \notin DOMAIN nested
              THEN nested @@ (service :> <<>>)
              ELSE nested
        r2 == IF endpoint \notin DOMAIN r1[service]
              THEN [r1 EXCEPT ![service] = @ @@ (endpoint :> <<>>)]
              ELSE r1
    IN  [r2 EXCEPT ![service][endpoint] = (test_name :> data) @@ @]

\* one call of add_result on the object
StoreAddResult(service, endpoint, test_name, data) ==
    /\ \/ Cardinality(DOMAIN Leaves(self_results)) < MaxLeaves
       \/ <<service, endpoint, test_name>> \in DOMAIN Leaves(self_results)
    /\ self_before' = self_results
    /\ self_results' =
        add_result(self_results, service, endpoint, test_name, data)
    /\ call' = [made |-> TRUE, service |-> service, endpoint |-> endpoint,
                test_name |-> test_name, data |-> data]

NextStore ==
    (\E service \in Services, endpoint \in StoreEndpoints,
        test_name \in StoreTestNames, data \in StoreData :
            StoreAddResult(service, endpoint, test_name, data))
        /\ UNCHANGED notStoreVars

SpecStore == Init /\ [][NextStore]_vars

\* ------------------------------------------------------------ demo apps
\* One process of one of the four demo apps. Time is counted in units of
\* 25 ms; a sleep lasts its delay plus up to MaxLate units; the computation
\* of /cpu-intensive is a wait of unknown length, here up to MaxLate units.
\* duration is read by the handler itself, from after track_request to
\* before the response is built.

AppNames == {ServiceNames[k] : k \in 1..Len(ServiceNames)}

\* the paths the harness requests: /health and ENDPOINTS
ProbedPaths == {"/health"} \cup {ENDPOINTS[k] : k \in 1..Len(ENDPOINTS)}

\* the @app.route decorators of each app
Routes(a) ==
    LET common == {"/health", "/slow", "/multi-io", "/cpu-intensive",
                   "/db-simulation", "/metrics"}
    IN  CASE a = "flask-wsgi" -> common \cup {"/parallel"}
          [] a = "flask-async-trap" -> common \cup {"/parallel-attempt"}
          [] a = "flask-asgi-wrapper" -> common \cup {"/parallel"}
          [] a = "quart-native" ->
                common \cup {"/parallel", "/external-api", "/sse"}

\* the handlers of a Flask app run on the threads of the server (or of the
\* WSGI adapter's pool); those of Quart are coroutines of one event loop
Threaded(a) == a # "quart-native"

\* (mutation of Body: every wait of a handler is awaited on its own)
BodySequential(a, path) ==
    CASE path = "/health" -> <<>>
      [] path = "/slow" -> << <<SlowSleep>> >>
      [] path = "/multi-io" -> [i \in 1..MultiIoCalls |-> <<MultiIoSleep>>]
      [] path = "/cpu-intensive" -> << <<0>> >>
      [] path = "/db-simulation" -> << <<DbSleep>> >>
      [] path = "/parallel" /\ a = "quart-native" ->
            << <<ParallelTaskDelay>>, <<ParallelTaskDelay>>,
               <<ParallelTaskDelay>> >>
      [] path = "/parallel" /\ a # "quart-native" ->
            << <<ParallelSleep>>, <<ParallelSleep>> >>

\* the waits of a handler, in the order they are begun: a sequence of
\* phases, each the delays of the waits begun together (one sleep, or the
\* arguments of one asyncio.gather)
Body(a, path) ==
    CASE path = "/health" -> <<>>
      [] path = "/slow" -> << <<SlowSleep>> >>
      [] path = "/multi-io" -> [i \in 1..MultiIoCalls |-> <<MultiIoSleep>>]
      [] path = "/cpu-intensive" -> << <<0>> >>
      [] path = "/db-simulation" -> << <<DbSleep>> >>
      [] path = "/parallel" /\ a = "flask-wsgi" ->
            << <<ParallelSleep>>, <<ParallelSleep>> >>
      [] path = "/parallel" /\ a = "flask-asgi-wrapper" ->
            << <<ParallelSleep, ParallelSleep>> >>
      [] path = "/parallel" /\ a = "quart-native" ->
            << <<ParallelTaskDelay, ParallelTaskDelay, ParallelTaskDelay>> >>

\* the name a handler passes to track_request
EndpointName(path) == SubSeq(path, 2, Len(path))

\* dict.get(endpoint_name, 0)
Get(d, k) == IF k \in DOMAIN d THEN d[k] ELSE 0

\* metrics = {"requests_total": 0, "requests_by_endpoint": {}, ...}
\* (start_time is not modelled)
InitialMetrics(a) ==
    LET base == [requests_total |-> 0, requests_by_endpoint |-> <<>>]
    IN  CASE a = "flask-asgi-wrapper" -> base @@ [wrapper_overhead_ms |-> <<>>]
          [] a = "quart-native" -> base @@ [concurrent_requests_handled |-> 0]
          [] OTHER -> base

\* the process starts: the module is imported
AppStart(a) ==
    /\ app = "none"
    /\ app' = a
    /\ metrics' = InitialMetrics(a)
    /\ UNCHANGED <<handlers, track_calls, received, app_response>>

\* a request for a route of the app is handed to its view function
Dispatch(t, path) ==
    /\ app # "none"
    /\ received < MaxReceived
    /\ t = received + 1
    /\ path \in Routes(app)
    /\ received' = received + 1
    /\ handlers' = [handlers EXCEPT ![t] = [Idle EXCEPT !.pc = "track", !.path = path]]
    /\ UNCHANGED <<app, metrics, track_calls, app_response>>

\* a request for a path without a route raises NotFound, which the handler
\* registered for Exception turns into a 500 response
HandleError(t, path) ==
    /\ app # "none"
    /\ received < MaxReceived
    /\ t = received + 1
    /\ path \notin Routes(app)
    /\ received' = received + 1
    /\ app_response' = [made |-> TRUE, service |-> app, path |-> path,
                        status_code |-> 500, duration |-> 0]
    /\ UNCHANGED <<app, handlers, metrics, track_calls>>

\* track_request on a thread: metrics["requests_total"] += 1 reads ...
LoadTotal(t) ==
    /\ Threaded(app)
    /\ handlers[t].pc = "track"
    /\ track_calls' = track_calls + 1
    /\ handlers' = [handlers EXCEPT ![t].pc = "store_total",
                                    ![t].tmp = metrics.requests_total]
    /\ UNCHANGED <<app, metrics, received, app_response>>

\* ... and writes
StoreTotal(t) ==
    /\ handlers[t].pc = "store_total"
    /\ metrics' = [metrics EXCEPT !.requests_total = handlers[t].tmp + 1]
    /\ handlers' = [handlers EXCEPT ![t].pc = "load_endpoint", ![t].tmp = 0]
    /\ UNCHANGED <<app, track_calls, received, app_response>>

\* metrics["requests_by_endpoint"].get(endpoint_name, 0) ...
LoadEndpoint(t) ==
    /\ handlers[t].pc = "load_endpoint"
    /\ handlers' =
        [handlers EXCEPT
            ![t].pc = "store_endpoint",
            ![t].tmp = Get(metrics.requests_by_endpoint,
                           EndpointName(handlers[t].path))]
    /\ UNCHANGED <<app, metrics, track_calls, received, app_response>>

\* ... + 1 is stored; start = time.time()
StoreEndpoint(t) ==
    /\ handlers[t].pc = "store_endpoint"
    /\ metrics' =
        [metrics EXCEPT !.requests_by_endpoint =
            (EndpointName(handlers[t].path) :> handlers[t].tmp + 1) @@ @]
    /\ handlers' = [handlers EXCEPT ![t].pc = "body", ![t].tmp = 0,
                                    ![t].phase = 1]
    /\ UNCHANGED <<app, track_calls, received, app_response>>

\* track_request in a coroutine of the event loop: it has no await, so no
\* other coroutine runs before it returns; start = time.time()
TrackRequest(t) ==
    /\ ~Threaded(app)
    /\ handlers[t].pc = "track"
    /\ track_calls' = track_calls + 1
    /\ metrics' =
        [metrics EXCEPT
            !.requests_total = @ + 1,
            !.requests_by_endpoint =
                (EndpointName(handlers[t].path) :>
                    Get(@, EndpointName(handlers[t].path)) + 1) @@ @]
    /\ handlers' = [handlers EXCEPT ![t].pc = "body", ![t].phase = 1]
    /\ UNCHANGED <<app, received, app_response>>

\* the next sleep (or gather of sleeps) of the handler begins
Sleep(t, late) ==
    LET h == handlers[t]
        body == Body(app, h.path)
    IN  /\ h.pc = "body"
        /\ h.phase <= Len(body)
        /\ DOMAIN late = DOMAIN body[h.phase]
        /\ LET delays == [i \in DOMAIN late |-> body[h.phase][i] + late[i]]
           IN  handlers' = [handlers EXCEPT ![t].pc = "waiting",
                                            ![t].timers = delays]
        /\ UNCHANGED <<app, metrics, track_calls, received, app_response>>

\* the handlers that wait
Sleeping == {t \in Threads : handlers[t].pc = "waiting"}

\* the time left of the waits that are not over
Remaining ==
    UNION {{handlers[t].timers[i] : i \in DOMAIN handlers[t].timers} :
                t \in Sleeping} \ {0}

\* every wait of the handler's phase is over
Over(t) == \A i \in DOMAIN handlers[t].timers : handlers[t].timers[i] = 0

\* time passes up to the end of the next wait; no handler is ready to run
Advance ==
    /\ Sleeping # {}
    /\ \A t \in Threads : handlers[t].pc # "body"
    /\ \A t \in Sleeping : ~Over(t)
    /\ LET d == Min(Remaining)
       IN  handlers' =
            [t \in Threads |->
                IF t \in Sleeping
                THEN [handlers[t] EXCEPT
                        !.elapsed = @ + d,
                        !.timers = [i \in DOMAIN @ |->
                                        IF @[i] > d THEN @[i] - d ELSE 0]]
                ELSE handlers[t]]
    /\ UNCHANGED <<app, metrics, track_calls, received, app_response>>

\* every wait of the phase is over: the handler goes on
WaitsDone(t) ==
    /\ handlers[t].pc = "waiting"
    /\ Over(t)
    /\ handlers' = [handlers EXCEPT ![t].pc = "body", ![t].timers = <<>>,
                                    ![t].phase = @ + 1]
    /\ UNCHANGED <<app, metrics, track_calls, received, app_response>>

\* duration = time.time() - start; return jsonify(...): status 200.
\* Quart's /parallel adds its three tasks to concurrent_requests_handled.
Return(t) ==
    LET h == handlers[t]
    IN  /\ h.pc = "body"
        /\ h.phase > Len(Body(app, h.path))
        /\ app_response' = [made |-> TRUE, service |-> app, path |-> h.path,
                            status_code |-> 200, duration |-> h.elapsed]
        /\ handlers' = [handlers EXCEPT ![t] = Idle]
        /\ metrics' =
            IF app = "quart-native" /\ h.path = "/parallel"
            THEN [metrics EXCEPT !.concurrent_requests_handled = @ + 3]
            ELSE metrics
        /\ UNCHANGED <<app, track_calls, received>>

Lates(n) == [1..n -> 0..MaxLate]

NextApp ==
    \/ (\E a \in AppNames : AppStart(a)) /\ UNCHANGED notAppVars
    \/ (\E t \in Threads, path \in ProbedPaths : Dispatch(t, path))
            /\ UNCHANGED notAppVars
    \/ (\E t \in Threads, path \in ProbedPaths : HandleError(t, path))
            /\ UNCHANGED notAppVars
    \/ (\E t \in Threads : LoadTotal(t)) /\ UNCHANGED notAppVars
    \/ (\E t \in Threads : StoreTotal(t)) /\ UNCHANGED notAppVars
    \/ (\E t \in Threads : LoadEndpoint(t)) /\ UNCHANGED notAppVars
    \/ (\E t \in Threads : StoreEndpoint(t)) /\ UNCHANGED notAppVars
    \/ (\E t \in Threads : TrackRequest(t)) /\ UNCHANGED notAppVars
    \/ (\E t \in Threads, n \in 1..3 : \E late \in Lates(n) : Sleep(t, late))
            /\ UNCHANGED notAppVars
    \/ Advance /\ UNCHANGED notAppVars
    \/ (\E t \in Threads : WaitsDone(t)) /\ UNCHANGED notAppVars
    \/ (\E t \in Threads : Return(t)) /\ UNCHANGED notAppVars

SpecApp == Init /\ [][NextApp]_vars

\* The same process when its client sends one request at a time, as
\* test_single_request does: a request is received after the response to
\* the previous one was sent.
NoneHandled == \A t \in Threads : handlers[t].pc = "idle"

NextOneRequest ==
    \/ (\E a \in AppNames : AppStart(a)) /\ UNCHANGED notAppVars
    \/ (NoneHandled /\ \E t \in Threads, path \in ProbedPaths : Dispatch(t, path))
            /\ UNCHANGED notAppVars
    \/ (NoneHandled /\ \E t \in Threads, path \in ProbedPaths : HandleError(t, path))
            /\ UNCHANGED notAppVars
    \/ (\E t \in Threads : LoadTotal(t)) /\ UNCHANGED notAppVars
    \/ (\E t \in Threads : StoreTotal(t)) /\ UNCHANGED notAppVars
    \/ (\E t \in Threads : LoadEndpoint(t)) /\ UNCHANGED notAppVars
    \/ (\E t \in Threads : StoreEndpoint(t)) /\ UNCHANGED notAppVars
    \/ (\E t \in Threads : TrackRequest(t)) /\ UNCHANGED notAppVars
    \/ (\E t \in Threads, n \in 1..3 : \E late \in Lates(n) : Sleep(t, late))
            /\ UNCHANGED notAppVars
    \/ Advance /\ UNCHANGED notAppVars
    \/ (\E t \in Threads : WaitsDone(t)) /\ UNCHANGED notAppVars
    \/ (\E t \in Threads : Return(t)) /\ UNCHANGED notAppVars

SpecOneRequest == Init /\ [][NextOneRequest]_vars

\* ---------------------------------------------------------------- claims
\* what the network did, read from the history variable response
Answered200(i) == response[i].kind = "response" /\ response[i].status_code = 200
AnsweredOther(i) == response[i].kind = "response" /\ response[i].status_code # 200
Raised(i) == response[i].kind = "exception"
Succeeded == {i \in Probes : Answered200(i)}

\* number of positions of s that hold d
Count(s, d) == Cardinality({k \in 1..Len(s) : s[k] = d})

\* every reordering of s
Reorderings(s) ==
    LET n == Len(s)
        Bij == {f \in [1..n -> 1..n] : \A a, b \in 1..n : a # b => f[a] # f[b]}
    IN  {[k \in 1..n |-> s[f[k]]] : f \in Bij}

\* C1: in a returned summary, errors plus the number of collected successful
\* durations equals the request count N (N >= 1): every probe is counted once.
C1_EveryProbeCountedOnce ==
    /\ errors + Len(durations) = Len(collected)
    /\ pc = "done" =>
        /\ num_requests >= 1
        /\ summary.errors + Len(durations) = num_requests

C1_Witness ==
    /\ pc = "done"
    /\ summary.errors >= 1
    /\ Len(durations) >= 1
    /\ \E i \in Probes : AnsweredOther(i)

\* C2: in a returned summary, success_rate equals (probes answered 200) / N,
\* in the all-failed case and otherwise, and lies in [0, 1].
C2_SuccessRate ==
    pc = "done" =>
        LET sr == summary.success_rate IN
        /\ sr.den > 0
        /\ sr.num * num_requests = Cardinality(Succeeded) * sr.den
        /\ 0 <= sr.num /\ sr.num <= sr.den

C2_Witness ==
    /\ pc = "done"
    /\ Cardinality(Succeeded) >= 1
    /\ Cardinality(Succeeded) < num_requests

\* C3: when all N probes fail the driver returns a summary whose only fields
\* are total_time, errors and success_rate, with errors = N, success_rate = 0
\* and total_time >= 0.
C3_AllFailedSummary ==
    (pc = "done" /\ Succeeded = {}) =>
        /\ DOMAIN summary = {"total_time", "errors", "success_rate"}
        /\ summary.errors = num_requests
        /\ summary.success_rate.num = 0
        /\ summary.total_time >= 0

C3_Witness ==
    /\ pc = "done"
    /\ Succeeded = {}
    /\ num_requests = MaxRequests
    /\ \E i \in Probes : Raised(i)

\* C4: a probe that got an answer or a transport failure has returned a
\* record; success holds exactly for status 200; test_single_request keeps
\* the status code of any other answer; a transport failure gives
\* success = false with the error message and no status_code.
C4_ProbeOutcome ==
    \A i \in Probes :
        /\ response[i].kind # "none" =>
            /\ pstate[i] = "settled"
            /\ {"success", "duration"} \subseteq DOMAIN result[i]
            /\ result[i].success <=> Answered200(i)
        /\ (strategy = "sync" /\ response[i].kind = "response") =>
            /\ "status_code" \in DOMAIN result[i]
            /\ result[i].status_code = response[i].status_code
            /\ "error" \notin DOMAIN result[i]
        /\ Raised(i) =>
            /\ ~result[i].success
            /\ "error" \in DOMAIN result[i]
            /\ result[i].error = response[i].message
            /\ "status_code" \notin DOMAIN result[i]

C4_Witness ==
    /\ strategy = "sync"
    /\ \E i \in Probes : AnsweredOther(i) /\ ~result[i].success
    /\ \E i \in Probes : Raised(i) /\ ~result[i].success

\* C5: the latency sample holds exactly the durations of the collected probes
\* that were answered 200; a probe answered otherwise or failed in transport
\* adds nothing to the sample and one to errors.
C5_SampleIsSuccessesOnly ==
    /\ \A d \in 0..MaxTime :
        Count(durations, d) =
            Cardinality({i \in Collected \cap Succeeded : result[i].duration = d})
    /\ errors = Cardinality(Collected \ Succeeded)

C5_Witness ==
    /\ pc = "done"
    /\ \E i \in Probes : Answered200(i)
    /\ \E i \in Probes : AnsweredOther(i) \/ Raised(i)
    /\ errors = 1

\* C6: no probe issues more than one GET, and a finished run of N probes has
\* issued exactly N GETs, whatever failed.
C6_NoRetry ==
    /\ \A i \in Probes : attempts[i] <= 1
    /\ \A i \in Probes : pstate[i] \in {"inflight", "settled"} => attempts[i] = 1
    /\ pc = "done" => SumSeq(attempts) = num_requests

C6_Witness ==
    /\ pc = "done"
    /\ num_requests = MaxRequests
    /\ \E i \in Probes : Raised(i)
    /\ \E i \in Probes : AnsweredOther(i)

\* C7: a summary exists only when every one of the N launched probes has
\* settled and its outcome has been collected; none is left in flight.
C7_FanInBarrier ==
    (pc = "done" \/ summary # NoSummary) =>
        /\ \A i \in Probes : pstate[i] = "settled"
        /\ Collected = Probes
        /\ Len(collected) = num_requests

C7_Witness ==
    /\ pc = "done"
    /\ num_requests = MaxRequests
    /\ \E i, j \in Probes :
        req_start[i] + result[i].duration < req_start[j] + result[j].duration

\* C8: the pool has N workers, so a queued probe always finds a free thread,
\* and a task of gather not yet started waits for the event loop only: no
\* probe waits for another probe to finish.
C8_FanOut ==
    /\ strategy = "sync" =>
        /\ max_workers = num_requests
        /\ Cardinality(InState("queued")) <=
                num_threads - Cardinality(InState("inflight"))
        /\ InState("queued") # {} => WorkerFree
    /\ (strategy = "async" /\ InState("new") # {}) => pc = "gather"

\* N probes of equal latency L, all in flight together: total_time is L
C8_Witness ==
    /\ pc = "done"
    /\ num_requests = MaxRequests
    /\ summary.total_time = MaxTime
    /\ \A i \in Probes : req_start[i] = start /\ result[i].duration = MaxTime

\* C9: total_time is the clock difference between the driver's start and its
\* return; every probe runs inside that interval, so total_time is at least
\* every probe's duration (and at least max_latency).
C9_TotalTimeIsWallClock ==
    pc = "done" =>
        /\ summary.total_time = clock - start
        /\ \A i \in Probes :
            /\ start <= req_start[i]
            /\ req_start[i] + result[i].duration <= clock
            /\ summary.total_time >= result[i].duration
        /\ durations # <<>> => summary.total_time >= summary.max_latency

C9_Witness ==
    /\ pc = "done"
    /\ Len(durations) >= 2
    /\ summary.total_time < SumSeq(durations)

Last(s) == s[Len(s)]

\* C11 (as amended): under the cooperative strategy the k-th collected outcome
\* is that of the k-th launched probe; under the thread-pool strategy an
\* outcome is collected only after its probe finished, the futures already
\* finished when as_completed is called come first in no particular order,
\* and the others follow in finishing order.
C11_CollectionOrder ==
    /\ [](strategy = "async" => \A k \in 1..Len(collected) : collected[k] = k)
    /\ [](strategy = "sync" =>
            /\ \A k \in 1..Len(collected) : pstate[collected[k]] = "settled"
            /\ \A k, l \in 1..Len(waiter) :
                k < l => FinishedAt(waiter[k]) <= FinishedAt(waiter[l]))
    /\ [][(strategy = "sync" /\ collected' # collected) =>
            /\ collected' = Append(collected, Last(collected'))
            /\ IF FirstBatch # {} THEN Last(collected') \in FirstBatch
               ELSE Last(collected') = Head(waiter)]_vars

\* the thread pool collected the second probe before the first
C11_Witness ==
    /\ strategy = "sync"
    /\ pc = "done"
    /\ collected = <<2, 1>>
    /\ FinishedAt(2) > FinishedAt(1)

\* C11 (as stated): the thread pool collects outcomes in finishing order.
C11_SyncInFinishingOrder ==
    strategy = "sync" =>
        \A k, l \in 1..Len(collected) :
            k < l => FinishedAt(collected[k]) <= FinishedAt(collected[l])

\* ----------------------------------------------- claims on the aggregation
\* a <= b for fractions with positive denominators
FracLeq(a, b) == a.num * b.den <= b.num * a.den
\* a fraction equal to the integer d
FracIs(a, d) == a.num = d * a.den

\* C12: for every sample of at least 2 successful durations,
\* p95_latency <= p99_latency.
C12_P95BelowP99 ==
    (pc = "done" /\ Len(durations) >= 2) =>
        /\ summary.p95_latency.den > 0 /\ summary.p99_latency.den > 0
        /\ FracLeq(summary.p95_latency, summary.p99_latency)

C12_Witness ==
    /\ pc = "done"
    /\ Len(durations) = MaxSample
    /\ ~FracLeq(summary.p99_latency, summary.p95_latency)

\* C13: when exactly one probe succeeded with duration d, whatever the number
\* of failed probes, p95, p99, min, max, mean and median all equal d.
C13_SingletonSample ==
    (pc = "done" /\ Len(durations) = 1) =>
        LET d == durations[1] IN
        /\ FracIs(summary.p95_latency, d)
        /\ FracIs(summary.p99_latency, d)
        /\ FracIs(summary.mean_latency, d)
        /\ FracIs(summary.median_latency, d)
        /\ summary.min_latency = d
        /\ summary.max_latency = d

C13_Witness ==
    /\ pc = "done"
    /\ Len(durations) = 1
    /\ durations[1] = MaxDuration
    /\ summary.errors = MaxErrors

\* the sample in ascending order, sorted here by counting
Ascending(s) ==
    [k \in 1..Len(s) |->
        CHOOSE v \in 1..MaxDuration + 1 :
            /\ Cardinality({x \in 1..Len(s) : s[x] < v}) < k
            /\ Cardinality({x \in 1..Len(s) : s[x] <= v}) >= k]

\* the value at rank h / n of the ascending sample a by linear interpolation
\* between the order statistics j and j + 1, j = min(floor(h / n), len - 1)
InterpolatedAt(a, h, n) ==
    LET f == h \div n
        j == IF f > Len(a) - 1 THEN Len(a) - 1 ELSE f
    IN  Frac(a[j] * n + (a[j + 1] - a[j]) * (h - j * n), n)

C15_GateIsConjunction ==
    gate_pc = "returned" =>
        /\ \A s \in Services : wpc[s] = "done"
        /\ gate_result <=> (\A s \in Services : results[s])
        /\ ~gate_result <=> (\E s \in Services : ~results[s])

\* the gate has returned False although one service was reported ready
C15_Witness ==
    /\ gate_pc = "returned"
    /\ ~gate_result
    /\ \E s \in Services : results[s]
    /\ \E s \in Services : ~results[s]

\* C16: the loops are started together and run independently: all of them
\* read the same start, a loop whose GET was answered 200 has returned True
\* whatever its siblings did, a loop returns False only at its own timeout,
\* and the gate returns only after every loop has returned.
C16_IndependentLoops ==
    /\ gate_pc # "idle" =>
        \A s, r \in Services : wstart[s] = wstart[r] /\ wpc[s] # "new"
    /\ \A s \in Services : wgot[s] => (wpc[s] = "done" /\ results[s])
    /\ \A s \in Services :
        (gate_pc = "gather" /\ wpc[s] = "done" /\ ~results[s]) =>
            now - wstart[s] >= timeout
    /\ gate_pc = "returned" => \A s \in Services : wpc[s] = "done"

\* one loop has given up, and a sibling was answered 200 after that and is
\* reported ready
C16_Witness ==
    /\ gate_pc = "returned"
    /\ \E s, r \in Services :
        /\ ~results[s]
        /\ results[r]
        /\ wgot[r]
        /\ svc[s] = "starting"

\* C17 (as stated): a loop that returns False does so no later than timeout
\* seconds after it was called.
C17_FalseWithinTimeout ==
    [][\A s \in Services :
        (wpc[s] # "done" /\ wpc'[s] = "done" /\ ~results'[s]) =>
            now - wstart[s] <= timeout]_vars

\* C18 (as stated): a GET of a loop begins at least one second after the
\* previous GET of that loop ended, whatever that GET ended with.
C18_FixedInterval ==
    \A s \in Services :
        (wpc[s] = "get" /\ wlast[s] >= 0) =>
            wsince[s] >= wlast[s] + SleepInterval

\* ------------------------------------------------------- claims on main
\* the triples the two suites store
PlannedKeys ==
    {<<SyncPlan[i].service, SyncPlan[i].endpoint, SyncPlan[i].test_name>> :
        i \in 1..Len(SyncPlan)}
    \cup
    {<<AsyncPlan[i].service, AsyncPlan[i].endpoint, AsyncPlan[i].test_name>> :
        i \in 1..Len(AsyncPlan)}

\* the leaf records no successful probe
FailedLeaf(data) ==
    IF "success" \in DOMAIN data THEN ~data.success
    ELSE data.success_rate = Frac(0, 1)

\* C19: a probe is dispatched against an endpoint under test, a result is
\* stored or a report is written only after the gate has returned True; when
\* the gate has failed for some service main has returned with no probe
\* dispatched, both stores empty and neither report written.
C19_GateGuardsSuite ==
    /\ (\/ issued > 0
        \/ inflight # -1
        \/ DOMAIN sync_results # {}
        \/ DOMAIN async_results # {}
        \/ json_report.written
        \/ md_report.written
        \/ main_pc \notin {"start", "gate", "aborted"})
            => (gate_pc = "returned" /\ gate_result)
    /\ (gate_pc = "returned" /\ ~gate_result) =>
        /\ main_pc \in {"gate", "aborted"}
        /\ issued = 0
        /\ inflight = -1
        /\ DOMAIN sync_results = {}
        /\ DOMAIN async_results = {}
        /\ ~json_report.written
        /\ ~md_report.written

\* main has aborted because one service failed the gate, another being ready
C19_Witness ==
    /\ main_pc = "aborted"
    /\ \E s \in Services : ~results[s]
    /\ \E s \in Services : results[s] /\ svc[s] = "up"

\* C20: once the gate has returned True main reaches its end, whatever the
\* probes did; at its end the store holds a result for every test of the
\* two suites, the JSON report holds that store, and the Markdown report
\* has a row for every service.
C20_RunsToCompletion ==
    /\ [](main_pc = "complete" =>
            /\ DOMAIN sync_results = PlannedKeys
            /\ json_report.written
            /\ json_report.results = sync_results
            /\ md_report.written
            /\ md_report.rows = Services)
    /\ (gate_pc = "returned" /\ gate_result) ~> (main_pc = "complete")

\* main has completed although every probe of every test failed
C20_Witness ==
    /\ main_pc = "complete"
    /\ json_report.written
    /\ md_report.written
    /\ \A key \in DOMAIN sync_results : FailedLeaf(sync_results[key])

\* -------------------------------------------- claims on the results store
\* C21: after add_result(service, endpoint, test_name, data) the leaf of
\* that triple is data, whether the triple was absent or present before,
\* the store has that triple and the triples it had, and every other leaf
\* is what it was.
C21_AddResultFrame ==
    call.made =>
        LET key == <<call.service, call.endpoint, call.test_name>>
            before == Leaves(self_before)
            after == Leaves(self_results)
        IN  /\ DOMAIN after = DOMAIN before \cup {key}
            /\ after[key] = call.data
            /\ \A k \in DOMAIN before : k # key => after[k] = before[k]

\* a call has overwritten a leaf with other data while the same endpoint
\* holds a result of another test
C21_Witness ==
    /\ call.made
    /\ LET key == <<call.service, call.endpoint, call.test_name>>
           before == Leaves(self_before)
       IN  /\ key \in DOMAIN before
           /\ before[key] # call.data
           /\ \E k \in DOMAIN before :
                k # key /\ k[1] = key[1] /\ k[2] = key[2]

\* C22: no step of a run removes a triple from a store, and once
\* generate_report has written the JSON report no step changes a store: the
\* report holds the store as it stays.
C22_MonotoneThenFrozen ==
    [][/\ DOMAIN sync_results \subseteq DOMAIN sync_results'
       /\ DOMAIN async_results \subseteq DOMAIN async_results'
       /\ json_report.written =>
            /\ sync_results' = sync_results
            /\ async_results' = async_results
            /\ json_report' = json_report
            /\ json_report.results = sync_results]_vars

\* the report is written, holds the results of both suites, and main is
\* about to write the Markdown report from the same store
C22_Witness ==
    /\ main_pc = "markdown"
    /\ json_report.written
    /\ DOMAIN json_report.results = PlannedKeys
    /\ DOMAIN async_results # {}

\* the fields every summary of a concurrent test carries
SummaryFields == {"total_time", "errors", "success_rate"}

\* the data carries the fields of a summary
IsTestSummary(data) == SummaryFields \subseteq DOMAIN data

\* the data is the record of one probe
IsProbeOutcome(data) ==
    \/ DOMAIN data = {"success", "duration", "status_code"}
    \/ DOMAIN data = {"success", "duration", "error"}

\* C23: every leaf stored under a concurrent test name carries total_time,
\* errors and success_rate; every leaf stored under 'single_request' is the
\* record of its one probe (success, duration and status_code or error) and
\* carries none of the three.
C23_LeafShapes ==
    \A st \in {sync_results, async_results} :
        \A key \in DOMAIN st :
            IF key[3] = "single_request"
            THEN IsProbeOutcome(st[key]) /\ ~IsTestSummary(st[key])
            ELSE IsTestSummary(st[key])

\* the store holds a single_request leaf and the summary of a concurrent
\* test of the same service and endpoint
C23_Witness ==
    \E key, other \in DOMAIN sync_results :
        /\ key[1] = other[1]
        /\ key[2] = other[2]
        /\ key[3] = "single_request"
        /\ other[3] = "concurrent_10"
        /\ "requests_per_second" \in DOMAIN sync_results[other]

\* C23 (as stated): every leaf of the store, the single_request entries
\* included, carries total_time, errors and success_rate.
C23_EveryLeafIsSummary ==
    \A st \in {sync_results, async_results} :
        \A key \in DOMAIN st : IsTestSummary(st[key])

\* C24: a step that changes a store is taken when no probe is in flight:
\* every probe of the test that ran has settled, and the next test has not
\* dispatched any.
C24_NoAddDuringFanOut ==
    [][(sync_results' # sync_results \/ async_results' # async_results) =>
        /\ inflight \in {-1, 0}
        /\ inflight' = -1]_vars

\* the result of a test of several probes was just stored, and the suite
\* has a next test to run
C24_Witness ==
    /\ main_pc = "suite"
    /\ inflight = -1
    /\ step > 1
    /\ step <= Len(SyncPlan)
    /\ SyncPlan[step - 1].num_requests >= 2
    /\ <<SyncPlan[step - 1].service, SyncPlan[step - 1].endpoint,
         SyncPlan[step - 1].test_name>> \in DOMAIN sync_results

\* C26: a loop returns True only in the step in which its GET of /health is
\* answered 200, returns False only when timeout seconds or more have passed
\* since it was called, and sends a GET only while fewer than timeout
\* seconds have passed.
C26_GateLoopReturns ==
    [][\A s \in Services :
        /\ (wpc[s] # "done" /\ wpc'[s] = "done" /\ results'[s]) =>
              (wpc[s] = "get" /\ svc[s] = "up" /\ wgot'[s])
        /\ (wpc[s] # "done" /\ wpc'[s] = "done" /\ ~results'[s]) =>
              now - wstart[s] >= timeout
        /\ (wpc[s] # "get" /\ wpc'[s] = "get") =>
              now - wstart[s] < timeout]_vars

\* while the gate is still gathering, one loop has run out of time after at
\* least one GET and another was answered 200
C26_Witness ==
    /\ gate_pc = "gather"
    /\ \E s, r \in Services :
        /\ wpc[s] = "done"
        /\ ~results[s]
        /\ now - wstart[s] >= timeout
        /\ wpc[r] = "done"
        /\ results[r]
        /\ wgot[r]

\* ------------------------------------- claims on the range of the summary
\* the two largest durations of the sample
TwoLargestEqual ==
    LET s == Sorted(durations)
    IN  s[Len(s)] = s[Len(s) - 1]

\* C27: for every sample of at least 2 successful durations (and fewer than
\* 19), mean_latency and median_latency lie between min_latency and
\* max_latency, and min_latency <= p95_latency <= p99_latency; the two
\* percentiles are extrapolated from the two largest durations, so that
\* they are at most max_latency exactly when the two largest durations are
\* equal, and above it otherwise.
C27_SummaryRange ==
    (pc = "done" /\ Len(durations) >= 2 /\ Len(durations) < 19) =>
        LET lo == Frac(summary.min_latency, 1)
            hi == Frac(summary.max_latency, 1)
        IN  /\ FracLeq(lo, summary.mean_latency)
            /\ FracLeq(summary.mean_latency, hi)
            /\ FracLeq(lo, summary.median_latency)
            /\ FracLeq(summary.median_latency, hi)
            /\ FracLeq(lo, summary.p95_latency)
            /\ FracLeq(summary.p95_latency, summary.p99_latency)
            /\ FracLeq(summary.p95_latency, hi) <=> TwoLargestEqual
            /\ FracLeq(summary.p99_latency, hi) <=> TwoLargestEqual

\* a summary of a full sample whose p95 is above its largest duration, and
\* whose smallest duration is not the first collected
C27_Witness ==
    /\ pc = "done"
    /\ Len(durations) = MaxSample
    /\ durations[1] > summary.min_latency
    /\ ~FracLeq(summary.p95_latency, Frac(summary.max_latency, 1))

\* C27 (as stated): the percentiles lie within the range of the sample.
C27_PercentilesWithinRange ==
    (pc = "done" /\ Len(durations) >= 2) =>
        /\ FracLeq(Frac(summary.min_latency, 1), summary.p95_latency)
        /\ FracLeq(summary.p99_latency, Frac(summary.max_latency, 1))

\* --------------------------------------------- claims on the visualizer
\* plot_concurrent_requests_comparison, plot_scalability: the test names
\* read under '/slow'
VisualizerTestNames == {"concurrent_10", "concurrent_50", "concurrent_100"}

\* plot_endpoint_comparison: the endpoints whose single_request is read
VisualizerEndpoints == {"/slow", "/multi-io", "/cpu-intensive", "/db-simulation"}

\* the triples the visualizer looks up in the results of the report
VisualizerReads ==
    {<<s, "/slow", t>> : s \in Services, t \in VisualizerTestNames}
        \cup {<<s, e, "single_request">> : s \in Services, e \in VisualizerEndpoints}

\* C29 (as stated): after a complete run the report holds every triple the
\* visualizer reads.
C29_VisualizerReadsAreWritten ==
    main_pc = "complete" => VisualizerReads \subseteq DOMAIN json_report.results

\* ---------------------------------------------- claims on the demo apps
\* C25 (as stated): whatever path under test is requested from whatever
\* service, the response has status 200.
C25_ContractHolds ==
    app_response.made => app_response.status_code = 200

\* the sum of the counters of requests_by_endpoint
RECURSIVE SumCounts(_)
SumCounts(d) ==
    IF DOMAIN d = {} THEN 0
    ELSE LET k == CHOOSE x \in DOMAIN d : TRUE
         IN  d[k] + SumCounts([x \in DOMAIN d \ {k} |-> d[x]])

\* C28 (as stated): when no request is being handled, requests_total is the
\* number of track_request calls made and the sum of the counters of
\* requests_by_endpoint.
C28_NoLostUpdate ==
    NoneHandled =>
        /\ metrics.requests_total = track_calls
        /\ SumCounts(metrics.requests_by_endpoint) = metrics.requests_total

\* C30: the duration reported by /parallel is, for flask-wsgi, at least the
\* sum of its two waits; for flask-asgi-wrapper, that of the longer of its
\* two waits, both begun together; for quart-native, that of the longest
\* of its three tasks, begun together.
C30_ParallelDurations ==
    (app_response.made /\ app_response.path = "/parallel"
        /\ app_response.status_code = 200) =>
        LET d == app_response.duration
        IN  /\ app_response.service = "flask-wsgi" =>
                (d >= ParallelSleep + ParallelSleep
                    /\ d <= ParallelSleep + ParallelSleep + MaxLate + MaxLate)
            /\ app_response.service = "flask-asgi-wrapper" =>
                (d >= ParallelSleep /\ d <= ParallelSleep + MaxLate)
            /\ app_response.service = "quart-native" =>
                (d >= ParallelTaskDelay /\ d <= ParallelTaskDelay + MaxLate)

\* the wrapper's /parallel has answered as late as one late wait makes it,
\* after a first request was served
C30_Witness ==
    /\ app_response.made
    /\ app_response.service = "flask-asgi-wrapper"
    /\ app_response.path = "/parallel"
    /\ app_response.duration = ParallelSleep + MaxLate
    /\ received = 2

====
